---- MODULE Spec2Model ----
(***************************************************************************)
(* Model of qemu_chrooter (src/src/main.rs): the ldd report parser, the    *)
(* placement of every dependency in the chroot, and the order of the       *)
(* stages of main.                                                         *)
(*                                                                         *)
(* A text (a Rust &str) is a sequence of tokens; a token is an indivisible *)
(* piece of text.  The patterns the code searches for are token sequences, *)
(* so `contains`, `splitn` and `rsplitn` are computed by matching.  A path *)
(* is a sequence of components, each component being a text.               *)
(***************************************************************************)
EXTENDS Integers, Sequences, FiniteSets, TLC

\* ------------------------------------------------------------ bounds

\* Longest ldd report, in lines.
MaxLines == 3

\* Number of times the program is run on the same arguments.
MaxRuns == 2

\* ------------------------------------------------------------ text

\* " => ", the separator of a library line (main.rs:91,94).
SEP == <<" ", "=>", " ">>

\* " (0x", the start of the load address (main.rs:95,110).
ADDR == <<" ", "(0x">>

\* "linux-vdso.so" (main.rs:98).
VDSO == <<"linux-vdso.so">>

\* "ld-linux" (main.rs:101).
LDLINUX == <<"ld-linux">>

\* "lib64/x86_64", the directory of the libraries (main.rs:124).
LIBDIR == <<"lib64", "/", "x86_64">>

\* "usr/bin", the directory of the QEMU binary (main.rs:125).
BINDIR == <<"usr", "/", "bin">>

\* The positions at which the pattern p starts in s.
Occurrences(s, p) ==
    {i \in 1..(Len(s) - Len(p) + 1) : SubSeq(s, i, i + Len(p) - 1) = p}

\* str::contains
Contains(s, p) == Occurrences(s, p) # {}

Min(S) == CHOOSE x \in S : \A y \in S : x <= y

Max(S) == CHOOSE x \in S : \A y \in S : x >= y

\* s.splitn(2, p).nth(1): what follows the first occurrence of p, if any.
\* An Option is a set: {} is None, {x} is Some(x).
SplitN2Nth1(s, p) ==
    IF Contains(s, p)
    THEN {SubSeq(s, Min(Occurrences(s, p)) + Len(p), Len(s))}
    ELSE {}

\* s.rsplitn(2, p).nth(1): what precedes the last occurrence of p, if any.
RSplitN2Nth1(s, p) ==
    IF Contains(s, p)
    THEN {SubSeq(s, 1, Max(Occurrences(s, p)) - 1)}
    ELSE {}

IsSpace(t) == t \in {" ", "\t"}

RECURSIVE TrimStart(_)
TrimStart(s) ==
    IF s # <<>> /\ IsSpace(Head(s)) THEN TrimStart(Tail(s)) ELSE s

RECURSIVE TrimEnd(_)
TrimEnd(s) ==
    IF s # <<>> /\ IsSpace(s[Len(s)]) THEN TrimEnd(SubSeq(s, 1, Len(s) - 1)) ELSE s

\* str::trim
Trim(s) == TrimEnd(TrimStart(s))

\* ------------------------------------------------------------ paths

\* The pieces of s between "/" separators, empty pieces included.
RECURSIVE SplitSlash(_, _)
SplitSlash(s, acc) ==
    IF s = <<>> THEN <<acc>>
    ELSE IF Head(s) = "/" THEN <<acc>> \o SplitSlash(Tail(s), <<>>)
    ELSE SplitSlash(Tail(s), Append(acc, Head(s)))

IsNormal(c) == c # <<>> /\ c # <<".">>

\* Path::components without the root: repeated separators and "." vanish.
Components(s) == SelectSeq(SplitSlash(s, <<>>), IsNormal)

\* Path::is_absolute
IsAbsolute(s) == s # <<>> /\ Head(s) = "/"

\* Path::file_name of a text: the last component unless it is "..".
FileName(s) ==
    LET cs == Components(s) IN
    IF cs = <<>> \/ cs[Len(cs)] = <<"..">> THEN {} ELSE {cs[Len(cs)]}

\* Path::parent of a path given by its components.
Parent(p) == IF p = <<>> THEN {} ELSE {SubSeq(p, 1, Len(p) - 1)}

\* ------------------------------------------------------------ host files

Dir == [kind |-> "dir", data |-> "", target |-> <<>>]

File(d) == [kind |-> "file", data |-> d, target |-> <<>>]

Link(t) == [kind |-> "link", data |-> "", target |-> t]

LdName == <<"ld-linux", "-x86-64.so.2">>

Ld32Name == <<"ld-linux", ".so.2">>

\* The files of the host, by absolute path.  /lib is a symbolic link to
\* usr/lib, and /lib64/ld-linux-x86-64.so.2 is one to ld-2.31.so.  The host
\* has no loop of links, and the chroot directory /srv/chroot is kept apart
\* in the variable tree.
HostFS ==
    (<< <<"lib64">> >> :> Dir) @@
    (<< <<"lib64">>, <<"ld-2.31.so">> >> :> File("ld-2.31")) @@
    (<< <<"lib64">>, LdName >> :> Link(<<"ld-2.31.so">>)) @@
    (<< <<"lib64">>, <<"x86_64">> >> :> Dir) @@
    (<< <<"lib64">>, <<"x86_64">>, LdName >> :> File("ld-alt")) @@
    (<< <<"usr">> >> :> Dir) @@
    (<< <<"usr">>, <<"lib">> >> :> Dir) @@
    (<< <<"usr">>, <<"lib">>, Ld32Name >> :> File("ld-32")) @@
    (<< <<"usr">>, <<"lib">>, <<"libc.so.6">> >> :> File("libc-usr")) @@
    (<< <<"lib">> >> :> Link(<<"usr", "/", "lib">>)) @@
    (<< <<"opt">> >> :> Dir) @@
    (<< <<"opt">>, <<"lib">> >> :> Dir) @@
    (<< <<"opt">>, <<"lib">>, <<"libc.so.6">> >> :> File("libc-opt")) @@
    (<< <<"opt">>, <<"qemu">> >> :> File("qemu")) @@
    (<< <<"srv">> >> :> Dir) @@
    (<< <<"srv">>, <<"chroot">> >> :> Dir)

\* The working directory of the process.
Cwd == << <<"opt">> >>

IsDirAt(fs, p) == p = <<>> \/ (p \in DOMAIN fs /\ fs[p].kind = "dir")

\* realpath: cur is the resolved prefix, rest the components still to walk.
RECURSIVE Walk(_, _)
Walk(cur, rest) ==
    IF rest = <<>> THEN {cur}
    ELSE IF ~IsDirAt(HostFS, cur) THEN {}
    ELSE IF Head(rest) = <<"..">>
    THEN Walk(IF cur = <<>> THEN <<>> ELSE SubSeq(cur, 1, Len(cur) - 1), Tail(rest))
    ELSE LET p == Append(cur, Head(rest)) IN
         IF p \notin DOMAIN HostFS THEN {}
         ELSE IF HostFS[p].kind = "link"
         THEN Walk(IF IsAbsolute(HostFS[p].target) THEN <<>> ELSE cur,
                   Components(HostFS[p].target) \o Tail(rest))
         ELSE Walk(p, Tail(rest))

\* Path::canonicalize: Some(the real absolute path), or None on an OS error.
\* The empty path does not resolve.
Canonicalize(s) ==
    IF s = <<>> THEN {}
    ELSE Walk(IF IsAbsolute(s) THEN <<>> ELSE Cwd, Components(s))

\* Path::is_file of a text (the links are followed).
IsFile(s) == \E p \in Canonicalize(s) : p \in DOMAIN HostFS /\ HostFS[p].kind = "file"

\* Path::is_dir of a text.
IsDir(s) == \E p \in Canonicalize(s) : IsDirAt(HostFS, p)

\* A variant of IsFilePath without the check of main.rs:129.
IsFilePathUnchecked(p) == TRUE

\* Path::is_file of a canonical path.
IsFilePath(p) == p \in DOMAIN HostFS /\ HostFS[p].kind = "file"

\* ------------------------------------------------------------ chroot files

\* The chroot tree maps a path below the chroot directory to what is there.
Prefixes(d) == {SubSeq(d, 1, i) : i \in 1..Len(d)}

\* std::fs::create_dir_all below the chroot: fails on a prefix that is no
\* directory, and otherwise makes every missing prefix a directory.
CreateDirAll(t, d) ==
    IF \E p \in Prefixes(d) : p \in DOMAIN t /\ t[p].kind # "dir"
    THEN [ok |-> FALSE, tree |-> t]
    ELSE [ok |-> TRUE,
          tree |-> [p \in Prefixes(d) \ DOMAIN t |-> Dir] @@ t]

\* A variant of CopyFile that refuses to overwrite (OpenOptions::create_new).
CopyFileCreateNew(t, src, dst) ==
    IF \/ src \notin DOMAIN HostFS
       \/ HostFS[src].kind # "file"
       \/ dst = <<>>
       \/ ~IsDirAt(t, SubSeq(dst, 1, Len(dst) - 1))
       \/ dst \in DOMAIN t
    THEN [ok |-> FALSE, tree |-> t]
    ELSE [ok |-> TRUE, tree |-> (dst :> File(HostFS[src].data)) @@ t]

\* std::fs::copy into the chroot: fails when the source is no regular file,
\* the destination is a directory or its parent is none, and otherwise
\* creates or overwrites the file.
CopyFile(t, src, dst) ==
    IF \/ src \notin DOMAIN HostFS
       \/ HostFS[src].kind # "file"
       \/ dst = <<>>
       \/ ~IsDirAt(t, SubSeq(dst, 1, Len(dst) - 1))
       \/ (dst \in DOMAIN t /\ t[dst].kind # "file")
    THEN [ok |-> FALSE, tree |-> t]
    ELSE [ok |-> TRUE, tree |-> (dst :> File(HostFS[src].data)) @@ t]

\* ------------------------------------------------------------ inputs

TAB == "\t"

\* "\tlibc.so.6 => /lib/libc.so.6 (0x00007f)": a library below a linked directory
LineLibc ==
    <<TAB, "libc.so.6">> \o SEP \o <<"/", "lib", "/", "libc.so.6">> \o ADDR \o <<"00007f)">>

\* "\tlibc.so.6 => /opt/lib/libc.so.6 (0x00007f)": another file of the same name
LineLibcOpt ==
    <<TAB, "libc.so.6">> \o SEP \o <<"/", "opt", "/", "lib", "/", "libc.so.6">>
        \o ADDR \o <<"00007f)">>

\* "\tlibz.so.1 => /opt/lib/libz.so.1 (0x00007f)": a file that does not exist
LineLibMissing ==
    <<TAB, "libz.so.1">> \o SEP \o <<"/", "opt", "/", "lib", "/", "libz.so.1">>
        \o ADDR \o <<"00007f)">>

\* "\tlibd.so => /opt/lib (0x00007f)": a directory
LineLibDir ==
    <<TAB, "libd.so">> \o SEP \o <<"/", "opt", "/", "lib">> \o ADDR \o <<"00007f)">>

\* "\tlinux-vdso.so.1 (0x00007ffc)"
LineVdso == <<TAB, "linux-vdso.so", ".1">> \o ADDR \o <<"00007ffc)">>

\* "\tlinux-vdso.so.1 =>  (0x00007ffc)", as older versions of ldd print it
LineVdsoArrow == <<TAB, "linux-vdso.so", ".1">> \o SEP \o ADDR \o <<"00007ffc)">>

\* "libfoo.so => (0x00007f)"
LineNoPath == <<"libfoo.so">> \o SEP \o <<"(0x", "00007f)">>

\* "libfoo.so =>  (0x00007f)"
LineEmptyPath == <<"libfoo.so">> \o SEP \o ADDR \o <<"00007f)">>

\* "\t/lib64/ld-linux-x86-64.so.2 (0x00007f)": the file name is a link
LineLoader == <<TAB, "/", "lib64", "/">> \o LdName \o ADDR \o <<"00007f)">>

\* "\t/lib/ld-linux.so.2 (0x00007f)": the directory is a link
LineLoaderLib == <<TAB, "/", "lib", "/">> \o Ld32Name \o ADDR \o <<"00007f)">>

\* "\t/lib64/x86_64/ld-linux-x86-64.so.2 (0x00007f)"
LineLoaderX86 ==
    <<TAB, "/", "lib64", "/", "x86_64", "/">> \o LdName \o ADDR \o <<"00007f)">>

\* "\t/lib64/ld-linux-x86-64.so.2 => /lib64/ld-linux-x86-64.so.2 (0x00007f)":
\* the loader as a library line
LineLoaderArrow ==
    <<TAB, "/", "lib64", "/">> \o LdName \o SEP \o <<"/", "lib64", "/">> \o LdName
        \o ADDR \o <<"00007f)">>

\* "\t/lib64/ld-linux-x86-64.so.2": a loader without its load address
LineLoaderNoAddr == <<TAB, "/", "lib64", "/">> \o LdName

\* "/opt/qemu:": a line of no known shape
LineOther == <<"/", "opt", "/", "qemu", ":">>

LinePool ==
    {LineLibc, LineLibcOpt, LineLibMissing, LineLibDir, LineVdso, LineVdsoArrow,
     LineNoPath, LineEmptyPath, LineLoader, LineLoaderLib, LineLoaderX86,
     LineLoaderArrow, LineLoaderNoAddr, LineOther}

\* The reports ldd may print: every sequence of at most MaxLines lines.
Reports == UNION {[1..n -> LinePool] : n \in 0..MaxLines}

\* What Command::output gives for ldd.
LddOutcomes ==
    {[status |-> s, stdout |-> <<>>] : s \in {"spawn_failed", "exit_nonzero", "invalid_utf8"}}
    \cup {[status |-> "ok", stdout |-> r] : r \in Reports}

QemuArg == <<"/", "opt", "/", "qemu">>

ChrootArg == <<"/", "srv", "/", "chroot">>

\* The command lines: a good one, one argument short, a QEMU path that is a
\* directory, a chroot path that is a file.
ArgsPool ==
    {<< <<"qemu_chrooter">>, QemuArg, ChrootArg >>,
     << <<"qemu_chrooter">>, QemuArg >>,
     << <<"qemu_chrooter">>, <<"/", "opt", "/", "lib">>, ChrootArg >>,
     << <<"qemu_chrooter">>, QemuArg, QemuArg >>}

\* The chroot before the first run: empty; holding a stale loader and a
\* directory where libc.so.6 is to be copied; holding a file named usr.
TreePool ==
    {<<>>,
     (<< <<"lib64">> >> :> Dir) @@
     (<< <<"lib64">>, LdName >> :> File("stale")) @@
     (<< <<"lib64">>, <<"x86_64">> >> :> Dir) @@
     (<< <<"lib64">>, <<"x86_64">>, <<"libc.so.6">> >> :> Dir),
     (<< <<"usr">> >> :> File("not a directory"))}

\* ------------------------------------------------------------ parser

\* A variant of ParseLine without the check of main.rs:104-107: a later
\* loader line replaces the loader found before.
ParseLineKeepLast(l, ls, ld) ==
    IF Contains(l, SEP)
    THEN LET after == SplitN2Nth1(l, SEP)
             lib == UNION {RSplitN2Nth1(x, ADDR) : x \in after}
         IN  IF lib = {}
             THEN [err |-> "UnexpectedLddOutput", reason |-> "UnexpectedFormat",
                   libs |-> ls, loader |-> ld]
             ELSE [err |-> "", reason |-> "",
                   libs |-> Append(ls, CHOOSE x \in lib : TRUE), loader |-> ld]
    ELSE IF Contains(l, VDSO)
    THEN [err |-> "", reason |-> "", libs |-> ls, loader |-> ld]
    ELSE IF Contains(l, LDLINUX)
    THEN LET found == {Trim(x) : x \in RSplitN2Nth1(l, ADDR)} IN
         IF found = {}
         THEN [err |-> "UnexpectedLddOutput", reason |-> "UnexpectedFormat",
               libs |-> ls, loader |-> ld]
         ELSE [err |-> "", reason |-> "", libs |-> ls, loader |-> found]
    ELSE [err |-> "", reason |-> "", libs |-> ls, loader |-> ld]

\* One pass of the loop over the lines of ldd's output (main.rs:90-113) on
\* the line l, with the libraries and the loader found so far.  err is the
\* Error returned ("" when the loop goes on) and reason tells the returns of
\* Error::UnexpectedLddOutput apart by the place they are made at.
ParseLine(l, ls, ld) ==
    IF Contains(l, SEP)
    THEN LET after == SplitN2Nth1(l, SEP)
             lib == UNION {RSplitN2Nth1(x, ADDR) : x \in after}
         IN  IF lib = {}
             THEN [err |-> "UnexpectedLddOutput", reason |-> "UnexpectedFormat",
                   libs |-> ls, loader |-> ld]
             ELSE [err |-> "", reason |-> "",
                   libs |-> Append(ls, CHOOSE x \in lib : TRUE), loader |-> ld]
    ELSE IF Contains(l, VDSO)
    THEN [err |-> "", reason |-> "", libs |-> ls, loader |-> ld]
    ELSE IF Contains(l, LDLINUX)
    THEN IF ld # {}
         THEN [err |-> "UnexpectedLddOutput", reason |-> "DuplicateLoader",
               libs |-> ls, loader |-> ld]
         ELSE LET found == {Trim(x) : x \in RSplitN2Nth1(l, ADDR)} IN
              IF found = {}
              THEN [err |-> "UnexpectedLddOutput", reason |-> "UnexpectedFormat",
                    libs |-> ls, loader |-> ld]
              ELSE [err |-> "", reason |-> "", libs |-> ls, loader |-> found]
    ELSE [err |-> "", reason |-> "", libs |-> ls, loader |-> ld]

\* ------------------------------------------------------------ placement

\* A variant of Tasks whose chain lacks the QEMU binary.
TasksWithoutQemu(ls, qemu, ld) ==
    [i \in 1..Len(ls) |-> [custom_path |-> {LIBDIR}, lib |-> ls[i]]]
    \o (IF ld = {} THEN <<>>
        ELSE << [custom_path |-> {}, lib |-> CHOOSE x \in ld : TRUE] >>)

\* The files to copy, in the order of the chained iterator (main.rs:123-126):
\* every library with Some("lib64/x86_64"), the QEMU binary with
\* Some("usr/bin"), the loader with None.
Tasks(ls, qemu, ld) ==
    [i \in 1..Len(ls) |-> [custom_path |-> {LIBDIR}, lib |-> ls[i]]]
    \o << [custom_path |-> {BINDIR}, lib |-> qemu] >>
    \o (IF ld = {} THEN <<>>
        ELSE << [custom_path |-> {}, lib |-> CHOOSE x \in ld : TRUE] >>)

\* A variant of TargetDir that mirrors the canonical directory of every file.
TargetDirMirror(custom_path, lib_path) == Parent(lib_path)

\* target_dir (main.rs:135-143): the custom path, or the parent of the
\* canonical path without its leading "/".  None stands for a failed unwrap.
TargetDir(custom_path, lib_path) ==
    IF custom_path # {}
    THEN {Components(x) : x \in custom_path}
    ELSE Parent(lib_path)

\* A variant of DestFileName that takes the name of the canonical path.
DestFileNameCanonical(lib, lib_path) ==
    IF lib_path = <<>> THEN {} ELSE {lib_path[Len(lib_path)]}

\* The file name of dest_file (main.rs:153): that of the path as reported.
DestFileName(lib, lib_path) == FileName(lib)

\* ------------------------------------------------------------ stages

\* A variant of StageAfter that checks the chroot before the QEMU binary.
StageAfterSwapped(s) ==
    CASE s = "ValidatingArgs" -> "ValidatingTargetDir"
      [] s = "ValidatingTargetDir" -> "ValidatingExecutable"
      [] s = "ValidatingExecutable" -> "RunningDependencyTool"
      [] s = "RunningDependencyTool" -> "ParsingReport"
      [] s = "ParsingReport" -> "ClassifyingAndInstalling"
      [] s = "ClassifyingAndInstalling" -> "Done"

\* The stage that follows a stage that succeeded (main.rs:55-163).
StageAfter(s) ==
    CASE s = "ValidatingArgs" -> "ValidatingExecutable"
      [] s = "ValidatingExecutable" -> "ValidatingTargetDir"
      [] s = "ValidatingTargetDir" -> "RunningDependencyTool"
      [] s = "RunningDependencyTool" -> "ParsingReport"
      [] s = "ParsingReport" -> "ClassifyingAndInstalling"
      [] s = "ClassifyingAndInstalling" -> "Done"

VARIABLES
    args,       \* std::env::args
    tree,       \* the files below the chroot directory
    pc,         \* the stage main is in
    err,        \* the Error main returned, "" while it runs
    reason,     \* the place the error was returned at
    ldd_stdout, \* the lines of ldd's output
    line,       \* the index of the next line to parse
    libs,       \* the libraries found
    loader,     \* the loader found, an Option
    task,       \* the index of the file being installed
    step,       \* the next step for that file
    lib_path,   \* its canonical path
    dest,       \* its directory below the chroot
    run,        \* the number of this run
    stages,     \* history: the stages of this run
    oplog,      \* history: the file system calls of all runs
    tree0,      \* history: the chroot when this run began
    treeDone    \* history: the chroot when the previous run ended

vars ==
    <<args, tree, pc, err, reason, ldd_stdout, line, libs, loader, task, step,
      lib_path, dest, run, stages, oplog, tree0, treeDone>>

parseVars == <<ldd_stdout, line, libs, loader>>

installVars == <<task, step, lib_path, dest>>

histVars == <<run, tree0, treeDone>>

Init ==
    /\ args \in ArgsPool
    /\ tree \in TreePool
    /\ pc = "ValidatingArgs"
    /\ err = ""
    /\ reason = ""
    /\ ldd_stdout = <<>>
    /\ line = 1
    /\ libs = <<>>
    /\ loader = {}
    /\ task = 1
    /\ step = "canonicalize"
    /\ lib_path = <<>>
    /\ dest = <<>>
    /\ run = 1
    /\ stages = <<"ValidatingArgs">>
    /\ oplog = <<>>
    /\ tree0 = tree
    /\ treeDone = tree

\* return Err(e)
Fail(e, r) ==
    /\ pc' = "Failed"
    /\ err' = e
    /\ reason' = r
    /\ stages' = Append(stages, "Failed")

\* The stage succeeded.
Advance ==
    /\ pc' = StageAfter(pc)
    /\ stages' = Append(stages, StageAfter(pc))
    /\ UNCHANGED <<err, reason>>

\* main.rs:57-62
ValidateArgs ==
    /\ pc = "ValidatingArgs"
    /\ IF Len(args) # 3 THEN Fail("InvalidArgs", "InvalidArgs") ELSE Advance
    /\ UNCHANGED <<args, tree, parseVars, installVars, histVars, oplog>>

\* main.rs:65-69
ValidateExecutable ==
    /\ pc = "ValidatingExecutable"
    /\ IF ~IsFile(args[2]) THEN Fail("InvalidQemuPath", "InvalidQemuPath") ELSE Advance
    /\ UNCHANGED <<args, tree, parseVars, installVars, histVars, oplog>>

\* main.rs:72-76
ValidateTargetDir ==
    /\ pc = "ValidatingTargetDir"
    /\ IF ~IsDir(args[3]) THEN Fail("InvalidChrootPath", "InvalidChrootPath") ELSE Advance
    /\ UNCHANGED <<args, tree, parseVars, installVars, histVars, oplog>>

\* main.rs:79-85.  ldd prints the same report when the same arguments are
\* run again on the same host.
RunDependencyTool ==
    /\ pc = "RunningDependencyTool"
    /\ \E out \in IF run = 1 THEN LddOutcomes
                  ELSE {[status |-> "ok", stdout |-> ldd_stdout]} :
        CASE out.status = "spawn_failed" ->
                Fail("RunLddFailed", "RunLddFailed") /\ UNCHANGED ldd_stdout
          [] out.status = "exit_nonzero" ->
                Fail("LddError", "LddError") /\ UNCHANGED ldd_stdout
          [] out.status = "invalid_utf8" ->
                Fail("LddInvalidUtf8", "LddInvalidUtf8") /\ UNCHANGED ldd_stdout
          [] out.status = "ok" ->
                Advance /\ ldd_stdout' = out.stdout
    /\ line' = 1
    /\ libs' = <<>>
    /\ loader' = {}
    /\ UNCHANGED <<args, tree, installVars, histVars, oplog>>

\* main.rs:90-113, one line
ParseNextLine ==
    /\ pc = "ParsingReport"
    /\ line <= Len(ldd_stdout)
    /\ LET r == ParseLine(ldd_stdout[line], libs, loader) IN
        IF r.err # ""
        THEN Fail(r.err, r.reason) /\ UNCHANGED <<line, libs, loader>>
        ELSE /\ libs' = r.libs
             /\ loader' = r.loader
             /\ line' = line + 1
             /\ UNCHANGED <<pc, err, reason, stages>>
    /\ UNCHANGED <<args, tree, ldd_stdout, installVars, histVars, oplog>>

\* main.rs:116-120, and the start of the loop of main.rs:123
FinishParse ==
    /\ pc = "ParsingReport"
    /\ line > Len(ldd_stdout)
    /\ IF loader = {}
       THEN Fail("UnexpectedLddOutput", "MissingLoader")
       ELSE Advance
    /\ task' = 1
    /\ step' = "canonicalize"
    /\ UNCHANGED <<args, tree, parseVars, lib_path, dest, histVars, oplog>>

\* The file the loop of main.rs:123 is at.
Current == Tasks(libs, args[2], loader)[task]

\* An entry of the history of file system calls.
Op(name, src, d, ok) ==
    [run |-> run, task |-> task, op |-> name, custom_path |-> Current.custom_path,
     lib |-> Current.lib, src |-> src, dst |-> d, ok |-> ok]

\* main.rs:127-132
InstallCanonicalize ==
    /\ pc = "ClassifyingAndInstalling"
    /\ step = "canonicalize"
    /\ LET c == Canonicalize(Current.lib) IN
        IF c = {}
        THEN /\ Fail("LibCanonicalize", "CanonicalizeFailed")
             /\ oplog' = Append(oplog, Op("canonicalize", <<>>, <<>>, FALSE))
             /\ UNCHANGED <<lib_path, step>>
        ELSE /\ lib_path' = CHOOSE x \in c : TRUE
             /\ oplog' = Append(oplog, Op("canonicalize", lib_path', <<>>, TRUE))
             /\ IF ~IsFilePath(lib_path')
                THEN Fail("UnexpectedLddOutput", "NotAFile") /\ UNCHANGED step
                ELSE step' = "create_dir_all" /\ UNCHANGED <<pc, err, reason, stages>>
    /\ UNCHANGED <<args, tree, parseVars, task, dest, histVars>>

\* main.rs:135-150
InstallCreateDir ==
    /\ pc = "ClassifyingAndInstalling"
    /\ step = "create_dir_all"
    /\ LET target_dir == TargetDir(Current.custom_path, lib_path) IN
        IF target_dir = {}
        THEN /\ Fail("panic", "panic")
             /\ UNCHANGED <<tree, dest, step, oplog>>
        ELSE LET d == CHOOSE x \in target_dir : TRUE
                 r == CreateDirAll(tree, d)
             IN  /\ dest' = d
                 /\ oplog' = Append(oplog, Op("create_dir_all", lib_path, d, r.ok))
                 /\ tree' = r.tree
                 /\ IF r.ok
                    THEN step' = "copy" /\ UNCHANGED <<pc, err, reason, stages>>
                    ELSE Fail("CreateOutputDirectory", "DirectoryCreateFailed")
                         /\ UNCHANGED step
    /\ UNCHANGED <<args, parseVars, task, lib_path, histVars>>

\* main.rs:153-159, and the end of main
InstallCopy ==
    /\ pc = "ClassifyingAndInstalling"
    /\ step = "copy"
    /\ LET name == DestFileName(Current.lib, lib_path) IN
        IF name = {}
        THEN /\ Fail("panic", "panic")
             /\ UNCHANGED <<tree, task, step, oplog>>
        ELSE LET dest_file == Append(dest, CHOOSE x \in name : TRUE)
                 r == CopyFile(tree, lib_path, dest_file)
             IN  /\ oplog' = Append(oplog, Op("copy", lib_path, dest_file, r.ok))
                 /\ tree' = r.tree
                 /\ IF ~r.ok
                    THEN Fail("CopyFile", "CopyFailed") /\ UNCHANGED <<task, step>>
                    ELSE IF task = Len(Tasks(libs, args[2], loader))
                    THEN Advance /\ UNCHANGED <<task, step>>
                    ELSE /\ task' = task + 1
                         /\ step' = "canonicalize"
                         /\ UNCHANGED <<pc, err, reason, stages>>
    /\ UNCHANGED <<args, parseVars, lib_path, dest, histVars>>

\* The program is run again with the same arguments on the chroot it left.
RunAgain ==
    /\ pc = "Done"
    /\ run < MaxRuns
    /\ run' = run + 1
    /\ pc' = "ValidatingArgs"
    /\ stages' = <<"ValidatingArgs">>
    /\ tree0' = tree
    /\ treeDone' = tree
    /\ line' = 1
    /\ libs' = <<>>
    /\ loader' = {}
    /\ task' = 1
    /\ step' = "canonicalize"
    /\ lib_path' = <<>>
    /\ dest' = <<>>
    /\ UNCHANGED <<args, tree, err, reason, ldd_stdout, oplog>>

Next ==
    \/ ValidateArgs
    \/ ValidateExecutable
    \/ ValidateTargetDir
    \/ RunDependencyTool
    \/ ParseNextLine
    \/ FinishParse
    \/ InstallCanonicalize
    \/ InstallCreateDir
    \/ InstallCopy
    \/ RunAgain

Spec == Init /\ [][Next]_vars

\* ------------------------------------------------------------ properties

Range(f) == {f[i] : i \in DOMAIN f}

\* The file system calls of this run, and its copies that succeeded.
ThisRun == SelectSeq(oplog, LAMBDA o : o.run = run)

IsCopy(o) == o.op = "copy" /\ o.ok

Copies == SelectSeq(ThisRun, IsCopy)

IsLibTask(o) == o.custom_path = {LIBDIR}

IsQemuTask(o) == o.custom_path = {BINDIR}

IsLoaderTask(o) == o.custom_path = {}

LibDirPath == << <<"lib64">>, <<"x86_64">> >>

BinDirPath == << <<"usr">>, <<"bin">> >>

IsBelow(p, d) == Len(p) > Len(d) /\ SubSeq(p, 1, Len(d)) = d

IsFileAt(t, p) == p \in DOMAIN t /\ t[p].kind = "file"

Installing == "ClassifyingAndInstalling" \in Range(stages)

\* C1: after a run that ends in Done the loader is a file of the chroot at
\* the path the report names it by, without the leading separator.
C1_LoaderAtReportedPath ==
    pc = "Done" => \A l \in loader : IsFileAt(tree, Components(l))

\* C2 as stated: the loader is copied to its canonical path below the
\* chroot, directory and file name, and never below lib64/x86_64.
C2_LoaderAtCanonicalPath ==
    \A i \in DOMAIN oplog :
        (IsCopy(oplog[i]) /\ IsLoaderTask(oplog[i])) =>
            /\ oplog[i].dst = oplog[i].src
            /\ ~IsBelow(oplog[i].dst, LibDirPath)

\* C2 as amended: the loader is copied into the directory of its canonical
\* path below the chroot, under the file name of the path as reported; it is
\* below lib64/x86_64 only when its canonical path is below /lib64/x86_64.
C2_LoaderInCanonicalDir ==
    \A i \in DOMAIN oplog :
        (IsCopy(oplog[i]) /\ IsLoaderTask(oplog[i])) =>
            LET o == oplog[i]
                reported == Components(o.lib)
            IN  /\ o.src \in Canonicalize(o.lib)
                /\ o.dst = Append(SubSeq(o.src, 1, Len(o.src) - 1), reported[Len(reported)])
                /\ IsBelow(o.dst, LibDirPath) => IsBelow(o.src, LibDirPath)

\* A loader whose file name is a link was installed, and one that lives
\* below /lib64/x86_64 was.
C2_Witness ==
    \E i \in DOMAIN oplog :
        /\ IsCopy(oplog[i])
        /\ IsLoaderTask(oplog[i])
        /\ pc = "Done"
        /\ oplog[i].dst # oplog[i].src

\* C3 as stated: two placement tasks of one run for different reported paths
\* never have the same destination file.
C3_DestinationsDisjoint ==
    \A i, j \in DOMAIN Copies :
        (i < j /\ Copies[i].lib # Copies[j].lib) => Copies[i].dst # Copies[j].dst

\* C3 as amended: two libraries have the same destination exactly when their
\* reported file names are equal, whatever their source paths; a library and
\* the QEMU binary never have the same destination; the loader has the
\* destination of another file only when its canonical directory is that
\* file's fixed directory and the reported file names are equal.
C3_DestinationsByName ==
    \A i, j \in DOMAIN Copies :
        i < j =>
            LET a == Copies[i]
                b == Copies[j]
            IN  /\ (IsLibTask(a) /\ IsLibTask(b)) =>
                        /\ IsBelow(a.dst, LibDirPath)
                        /\ (a.dst = b.dst) <=> (FileName(a.lib) = FileName(b.lib))
                /\ (IsLibTask(a) /\ IsQemuTask(b)) =>
                        /\ a.dst # b.dst
                        /\ IsBelow(b.dst, BinDirPath)
                /\ (IsLoaderTask(b) /\ a.dst = b.dst) =>
                        /\ FileName(a.lib) = FileName(b.lib)
                        /\ SubSeq(b.src, 1, Len(b.src) - 1) =
                              IF IsLibTask(a) THEN LibDirPath ELSE BinDirPath

\* Two libraries of different source paths were copied to the same file.
C3_Witness ==
    \E i, j \in DOMAIN Copies :
        /\ i < j
        /\ IsLibTask(Copies[i])
        /\ IsLibTask(Copies[j])
        /\ Copies[i].src # Copies[j].src
        /\ Copies[i].dst = Copies[j].dst
        /\ pc = "Done"

InstallReasons == {"CanonicalizeFailed", "NotAFile", "DirectoryCreateFailed", "CopyFailed"}

\* The calls a file that was installed went through.
FullOps == <<"canonicalize", "create_dir_all", "copy">>

\* The calls made for the file that failed, by the failure.
FailedOps(r) ==
    CASE r = "CanonicalizeFailed" -> <<"canonicalize">>
      [] r = "NotAFile" -> <<"canonicalize">>
      [] r = "DirectoryCreateFailed" -> <<"canonicalize", "create_dir_all">>
      [] r = "CopyFailed" -> <<"canonicalize", "create_dir_all", "copy">>

\* C4: when file k fails, the run is Failed; the calls made are those of
\* files 1..k-1 in order, each complete, then those of file k up to the one
\* that failed, and none for a later file; the reason is that of the first
\* check file k does not pass, so that a path that does not resolve or is no
\* regular file is never copied; the copies of files 1..k-1 are still files
\* of the chroot; the libraries come first, then QEMU, then the loader.
C4_FailFast ==
    (pc = "Failed" /\ Installing) =>
        LET ops == ThisRun
            T == Tasks(libs, args[2], loader)
            c == Canonicalize(T[task].lib)
        IN  /\ reason \in InstallReasons
            /\ Len(ops) = 3 * (task - 1) + Len(FailedOps(reason))
            /\ \A i \in DOMAIN ops :
                /\ ops[i].task = ((i - 1) \div 3) + 1
                /\ ops[i].op = FullOps[((i - 1) % 3) + 1]
                /\ ops[i].ok <=> (i < Len(ops) \/ reason = "NotAFile")
                /\ ops[i].lib = T[ops[i].task].lib
                /\ ops[i].op = "copy" => ops[i].src \in DOMAIN HostFS
                /\ ops[i].op = "copy" => HostFS[ops[i].src].kind = "file"
                /\ (ops[i].op = "copy" /\ ops[i].ok) => IsFileAt(tree, ops[i].dst)
            /\ (c = {}) <=> (reason = "CanonicalizeFailed")
            /\ (\E p \in c : HostFS[p].kind # "file") <=> (reason = "NotAFile")
            /\ \A i, j \in DOMAIN T :
                i < j => /\ ~IsLoaderTask(T[i])
                         /\ IsLibTask(T[j]) => IsLibTask(T[i])

\* A run failed on a file after another file had been copied.
C4_Witness ==
    /\ pc = "Failed"
    /\ reason \in {"CanonicalizeFailed", "NotAFile"}
    /\ task > 1
    /\ Len(Copies) = task - 1

\* C5: a run that follows a run that ended in Done, with the same arguments
\* and the same report, ends in Done and leaves the chroot as it found it.
C5_Idempotent ==
    (run > 1 /\ pc \in {"Done", "Failed"}) => (pc = "Done" /\ tree = treeDone)

\* A second run has ended after copying over the files of the first.
C5_Witness ==
    /\ run = 2
    /\ pc = "Done"
    /\ Len(Copies) >= 3

\* C6: a run that ends in Done on a report of N different libraries has made
\* N + 2 copies, one for each library, one for QEMU and one for the loader,
\* into at most N + 2 different destination directories.
C6_CopyCount ==
    (pc = "Done" /\ \A i, j \in DOMAIN libs : i # j => libs[i] # libs[j]) =>
        LET N == Len(libs)
            dirs == {ThisRun[i].dst : i \in {k \in DOMAIN ThisRun : ThisRun[k].op = "create_dir_all"}}
        IN  /\ Len(SelectSeq(ThisRun, LAMBDA o : o.op = "copy")) = N + 2
            /\ Len(Copies) = N + 2
            /\ Len(SelectSeq(Copies, IsLibTask)) = N
            /\ Len(SelectSeq(Copies, IsQemuTask)) = 1
            /\ Len(SelectSeq(Copies, IsLoaderTask)) = 1
            /\ Cardinality(dirs) <= N + 2

\* A run on two different libraries has ended in Done.
C6_Witness ==
    /\ pc = "Done"
    /\ Len(libs) = 2
    /\ libs[1] # libs[2]

\* A line that reaches the loader branch of the parser.
IsLoaderLine(l) == ~Contains(l, SEP) /\ ~Contains(l, VDSO) /\ Contains(l, LDLINUX)

\* A loader line with its load address.
IsLoaderShaped(l) == IsLoaderLine(l) /\ Contains(l, ADDR)

\* A library line without " (0x" after its separator.
IsMalformedLibrary(l) ==
    Contains(l, SEP) /\ \A x \in SplitN2Nth1(l, SEP) : ~Contains(x, ADDR)

LoaderShapedLines == {i \in DOMAIN ldd_stdout : IsLoaderShaped(ldd_stdout[i])}

LoaderLines == {i \in DOMAIN ldd_stdout : IsLoaderLine(ldd_stdout[i])}

\* The parser has returned.
Parsed == "ParsingReport" \in Range(stages) /\ pc # "ParsingReport"

\* C7 as stated: past the parser, the installation is entered only with
\* exactly one loader line; two loader-shaped lines give DuplicateLoader and
\* no loader line gives MissingLoader.
C7_LoaderCount ==
    Parsed =>
        /\ Installing => Cardinality(LoaderLines) = 1
        /\ Cardinality(LoaderShapedLines) >= 2 =>
                (pc = "Failed" /\ reason = "DuplicateLoader" /\ ~Installing)
        /\ LoaderLines = {} =>
                (pc = "Failed" /\ reason = "MissingLoader" /\ ~Installing)

\* The lines before line n that end the parse with UnexpectedFormat: a
\* malformed library line, or a loader line without its load address that
\* no loader-shaped line comes before.
BadBefore(n) ==
    {i \in 1..(n - 1) :
        \/ IsMalformedLibrary(ldd_stdout[i])
        \/ /\ IsLoaderLine(ldd_stdout[i])
           /\ ~Contains(ldd_stdout[i], ADDR)
           /\ \A k \in LoaderShapedLines : k > i}

\* C7 as amended: the installation is entered only with exactly one loader
\* line, which gave the loader; two loader-shaped lines give DuplicateLoader
\* at the first loader line that follows the first of them, or
\* UnexpectedFormat when a malformed line comes before that line; no loader
\* line gives MissingLoader, or UnexpectedFormat when a library line is
\* malformed; the installation is entered in neither case.
C7_LoaderCountOrFormat ==
    Parsed =>
        /\ Installing =>
                /\ Cardinality(LoaderLines) = 1
                /\ \A i \in LoaderLines :
                        loader = {Trim(x) : x \in RSplitN2Nth1(ldd_stdout[i], ADDR)}
                /\ loader # {}
        /\ Cardinality(LoaderShapedLines) >= 2 =>
                LET second == Min({i \in LoaderLines : i > Min(LoaderShapedLines)}) IN
                /\ pc = "Failed"
                /\ ~Installing
                /\ reason = (IF BadBefore(second) = {} THEN "DuplicateLoader"
                             ELSE "UnexpectedFormat")
        /\ LoaderLines = {} =>
                /\ pc = "Failed"
                /\ ~Installing
                /\ reason = (IF BadBefore(Len(ldd_stdout) + 1) = {} THEN "MissingLoader"
                             ELSE "UnexpectedFormat")

\* A report of two loader-shaped lines was refused as a duplicate.
C7_Witness ==
    /\ pc = "Failed"
    /\ reason = "DuplicateLoader"
    /\ Cardinality(LoaderShapedLines) >= 2

\* The parser is about to read a line.
AtLine == pc = "ParsingReport" /\ line <= Len(ldd_stdout)

\* C8: a line that names linux-vdso.so is skipped: it adds no library, sets
\* no loader and is no parse error.
C8_VdsoSkipped ==
    [][(AtLine /\ Contains(ldd_stdout[line], VDSO)) =>
            (libs' = libs /\ loader' = loader /\ pc' # "Failed")]_vars

\* A library line whose path is missing before the load address, or that has
\* no load address after the separator.
IsPathMissing(l) ==
    /\ Contains(l, SEP)
    /\ \A x \in SplitN2Nth1(l, SEP) :
        \/ ~Contains(x, ADDR)
        \/ \A y \in RSplitN2Nth1(x, ADDR) : Trim(y) = <<>>

\* C9: a library line whose path is missing, or that has no load address,
\* fails with UnexpectedFormat and adds no library.
C9_MissingPathRejected ==
    [][(AtLine /\ IsPathMissing(ldd_stdout[line])) =>
            (pc' = "Failed" /\ reason' = "UnexpectedFormat" /\ libs' = libs)]_vars

StageOrder ==
    <<"ValidatingArgs", "ValidatingExecutable", "ValidatingTargetDir",
      "RunningDependencyTool", "ParsingReport", "ClassifyingAndInstalling", "Done">>

\* C10: a run goes through the stages in their order, each at most once, up
\* to Done or to the stage that fails; until the installation is entered no
\* file system call is made in the chroot, which stays as the run found it.
C10_StageOrder ==
    /\ pc = stages[Len(stages)]
    /\ \E n \in 1..Len(StageOrder) :
        \/ stages = SubSeq(StageOrder, 1, n)
        \/ stages = Append(SubSeq(StageOrder, 1, n), "Failed")
    /\ ~Installing => (tree = tree0 /\ ThisRun = <<>>)

\* A run failed in the parser, after the report was read.
C10_Witness ==
    /\ pc = "Failed"
    /\ reason = "MissingLoader"
    /\ Len(ldd_stdout) > 0
    /\ tree = tree0

====
